---------------------------- MODULE Spec2Model ----------------------------
(***************************************************************************)
(* Model of the contact book of classes/main_classes.py: the validated     *)
(* fields Phone and Birthday, Record with its phone list and optional      *)
(* birthday, and AddressBook with add_record / find / delete and the       *)
(* get_upcoming_birthdays query.                                           *)
(*                                                                         *)
(* A Python str is a sequence of one-character strings.  A character that  *)
(* has no ASCII spelling is written by its code point ("U+00B2").  None is *)
(* the empty sequence where a value is optional (Record.birthday) and 0    *)
(* where a Record is optional (AddressBook.find).  Record objects live in  *)
(* the sequence records; a Record's identity is its index there.           *)
(***************************************************************************)
EXTENDS Integers, Sequences, FiniteSets, TLC

VARIABLES records, book, last

vars == <<records, book, last>>

-----------------------------------------------------------------------------
(* Bounds of the model and constants of the program *)

\* main_classes.py:6
WEEK == 7
\* main_classes.py:7
WORKING_DAYS == 5
\* main_classes.py:32, the length __validate compares len(phone) with
PHONE_LEN == 10

\* longest string tried as a phone number
MaxLen == 11
\* Record objects the caller constructs
MaxRecords == 2
\* phones one Record holds before the caller stops adding
MaxPhones == 2
\* days after each anchor date that "today" ranges over
TodaySpan == 7

-----------------------------------------------------------------------------
(* Strings *)

\* '0'..'9'
AsciiDigits == {"0", "1", "2", "3", "4", "5", "6", "7", "8", "9"}

\* Characters outside '0'..'9' for which str.isdigit() is true: SUPERSCRIPT
\* TWO and ARABIC-INDIC DIGIT ONE (Unicode Numeric_Type Digit / Decimal).
UnicodeDigits == {"U+00B2", "U+0661"}

\* str.isdigit(): true iff the string is non-empty and every character is a
\* digit character (Numeric_Type Digit or Decimal).
IsDigit(s) ==
    /\ Len(s) > 0
    /\ \A i \in 1..Len(s) : s[i] \in AsciiDigits \cup UnicodeDigits

\* the string of n characters c with the p-th replaced by d
Mixed(c, d, n, p) == [i \in 1..n |-> IF i = p THEN d ELSE c]

\* value of a decimal digit character
DigitVal(c) ==
    CASE c = "0" -> 0 [] c = "1" -> 1 [] c = "2" -> 2 [] c = "3" -> 3
      [] c = "4" -> 4 [] c = "5" -> 5 [] c = "6" -> 6 [] c = "7" -> 7
      [] c = "8" -> 8 [] c = "9" -> 9

RECURSIVE ToInt(_)
\* int(s) for a string of ASCII digits
ToInt(s) ==
    IF Len(s) = 0 THEN 0
    ELSE 10 * ToInt(SubSeq(s, 1, Len(s) - 1)) + DigitVal(s[Len(s)])

-----------------------------------------------------------------------------
(* Phone *)

\* Phone.__validate: raises PhoneInvalid unless phone.isdigit() and
\* len(phone) == 10.  TRUE means no exception.
PhoneValidate(phone) == ~ (~ IsDigit(phone) \/ Len(phone) # PHONE_LEN)

\* The result of the last call: the operation, the Record it acted on (0 for
\* none), its arguments, the exception raised ("" for none), the value
\* returned and what the call found: for a Record operation the phone list
\* before the call, for add_record and delete the Record stored under the
\* name before the call.
Call(op, rec, args, raised, ret, pre) ==
    [op |-> op, rec |-> rec, args |-> args, raised |-> raised, ret |-> ret,
     pre |-> pre]

\* Phone(value): __init__ validates, then Field.__init__ stores value.
\* The new Phone object is returned (ret holds it), or PhoneInvalid is raised
\* and no object exists.
PhoneInit(value) ==
    /\ IF PhoneValidate(value)
       THEN last' = Call("Phone", 0, <<value>>, "", <<value>>, <<>>)
       ELSE last' = Call("Phone", 0, <<value>>, "PhoneInvalid", <<>>, <<>>)
    /\ UNCHANGED <<records, book>>

-----------------------------------------------------------------------------
(* Dates: the datetime.date values the code computes with *)

IsLeap(y) == (y % 4 = 0) /\ ((y % 100 # 0) \/ (y % 400 = 0))

DaysInMonth(y, m) ==
    IF m = 2 THEN (IF IsLeap(y) THEN 29 ELSE 28)
    ELSE IF m \in {4, 6, 9, 11} THEN 30 ELSE 31

Date(y, m, d) == [year |-> y, month |-> m, day |-> d]

RECURSIVE DaysBeforeMonth(_, _)
DaysBeforeMonth(y, m) ==
    IF m = 1 THEN 0 ELSE DaysBeforeMonth(y, m - 1) + DaysInMonth(y, m - 1)

\* date.toordinal(): 1 for 0001-01-01
Ordinal(dt) ==
    LET y1 == dt.year - 1
    IN  y1 * 365 + (y1 \div 4) - (y1 \div 100) + (y1 \div 400)
          + DaysBeforeMonth(dt.year, dt.month) + dt.day

\* date.isoweekday(): 1 Monday .. 7 Sunday
IsoWeekday(dt) == ((Ordinal(dt) + 6) % 7) + 1

NextDay(dt) ==
    IF dt.day < DaysInMonth(dt.year, dt.month)
    THEN Date(dt.year, dt.month, dt.day + 1)
    ELSE IF dt.month < 12 THEN Date(dt.year, dt.month + 1, 1)
    ELSE Date(dt.year + 1, 1, 1)

RECURSIVE AddDays(_, _)
\* dt + timedelta(days=n), n >= 0
AddDays(dt, n) == IF n = 0 THEN dt ELSE AddDays(NextDay(dt), n - 1)

\* date.__lt__
DateLT(a, b) ==
    \/ a.year < b.year
    \/ a.year = b.year /\ a.month < b.month
    \/ a.year = b.year /\ a.month = b.month /\ a.day < b.day

-----------------------------------------------------------------------------
(* Birthday *)

\* positions of the '.' characters of s
Dots(s) == { i \in 1..Len(s) : s[i] = "." }

IsAsciiDigits(s) == Len(s) > 0 /\ \A i \in 1..Len(s) : s[i] \in AsciiDigits

\* datetime.strptime(value, "%d.%m.%Y"): the string is day '.' month '.' year
\* with a day of one or two digits in 1..31, a month of one or two digits in
\* 1..12 and a year of exactly four digits, and the three make a date of the
\* calendar; anything else is a ValueError (ok = FALSE).
StrpTime(value) ==
    LET dots == Dots(value)
        bad == [ok |-> FALSE, date |-> Date(0, 0, 0)]
    IN  IF Cardinality(dots) # 2 THEN bad
        ELSE
          LET p1 == CHOOSE i \in dots : \A j \in dots : i <= j
              p2 == CHOOSE i \in dots : \A j \in dots : j <= i
              d0 == SubSeq(value, 1, p1 - 1)
              \* %d also takes a space and one digit 1-9
              ds == IF Len(d0) = 2 /\ d0[1] = " " /\ d0[2] \in AsciiDigits \ {"0"}
                    THEN <<d0[2]>> ELSE d0
              ms == SubSeq(value, p1 + 1, p2 - 1)
              ys == SubSeq(value, p2 + 1, Len(value))
          IN  IF ~ (IsAsciiDigits(ds) /\ IsAsciiDigits(ms) /\ IsAsciiDigits(ys))
                THEN bad
              ELSE IF Len(ds) > 2 \/ Len(ms) > 2 \/ Len(ys) # 4 THEN bad
              ELSE
                LET d == ToInt(ds)
                    m == ToInt(ms)
                    y == ToInt(ys)
                IN  IF m < 1 \/ m > 12 \/ d < 1 \/ d > 31 \/ y < 1 THEN bad
                    ELSE IF d > DaysInMonth(y, m) THEN bad
                    ELSE [ok |-> TRUE, date |-> Date(y, m, d)]

\* Birthday.__validate: BirthdayInvalid when strptime raises ValueError.
\* TRUE means no exception.
BirthdayValidate(value) == StrpTime(value).ok

-----------------------------------------------------------------------------
(* Record *)

\* Record(name): Name(name), no phones, no birthday.  A phone is the value
\* of a Phone object; the birthday is <<>> (None) or <<value>>.
NewRecordObj(name) == [name |-> name, phones |-> <<>>, birthday |-> <<>>]

\* `_phone == phone` in find_phone: _phone is a Phone object and phone the
\* str the caller passed.  Field defines no __eq__, so the comparison is
\* object.__eq__ (identity) and a Phone is never equal to a str.
PhoneEqStr(phoneValue, str) == FALSE

\* Record.find_phone on a phone list: the index of the first Phone equal to
\* phone, 0 for None.
FindPhone(phones, phone) ==
    LET hits == { i \in 1..Len(phones) : PhoneEqStr(phones[i], phone) }
    IN  IF hits = {} THEN 0 ELSE CHOOSE i \in hits : \A j \in hits : i <= j

RECURSIVE Filter(_, _)
\* [p for p in phones if p.value != phone]
Filter(phones, phone) ==
    IF phones = <<>> THEN <<>>
    ELSE IF Head(phones) # phone
         THEN <<Head(phones)>> \o Filter(Tail(phones), phone)
         ELSE Filter(Tail(phones), phone)

\* Record(name)
NewRecord(name) ==
    /\ Len(records) < MaxRecords
    /\ records' = Append(records, NewRecordObj(name))
    /\ last' = Call("Record", Len(records) + 1, <<name>>, "", <<>>, <<>>)
    /\ UNCHANGED book

\* Record.put_phone
PutPhone(r, phone) ==
    LET phones == records[r].phones
        found == FindPhone(phones, phone)
    IN  /\ Len(phones) < MaxPhones
        /\ IF found # 0
           THEN /\ UNCHANGED records
                /\ last' = Call("put_phone", r, <<phone>>, "", <<>>, phones)
           ELSE IF PhoneValidate(phone)
           THEN /\ records' = [records EXCEPT ![r].phones = Append(phones, phone)]
                /\ last' = Call("put_phone", r, <<phone>>, "", <<>>, phones)
           ELSE /\ UNCHANGED records
                /\ last' = Call("put_phone", r, <<phone>>, "PhoneInvalid", <<>>,
                                phones)
        /\ UNCHANGED book

\* Phone.update on the i-th Phone object of a Record's list
PhoneUpdate(r, i, phone) ==
    LET phones == records[r].phones
    IN  /\ IF PhoneValidate(phone)
           THEN /\ records' = [records EXCEPT ![r].phones[i] = phone]
                /\ last' = Call("update", r, <<i, phone>>, "", <<>>, phones)
           ELSE /\ UNCHANGED records
                /\ last' = Call("update", r, <<i, phone>>, "PhoneInvalid", <<>>,
                                phones)
        /\ UNCHANGED book

\* Record.edit_phone: found.update(new_phone) when find_phone finds one
EditPhone(r, curr_phone, new_phone) ==
    LET phones == records[r].phones
        found == FindPhone(phones, curr_phone)
    IN  /\ IF found = 0
           THEN /\ UNCHANGED records
                /\ last' = Call("edit_phone", r, <<curr_phone, new_phone>>, "",
                                <<>>, phones)
           ELSE IF PhoneValidate(new_phone)
           THEN /\ records' = [records EXCEPT ![r].phones[found] = new_phone]
                /\ last' = Call("edit_phone", r, <<curr_phone, new_phone>>, "",
                                <<>>, phones)
           ELSE /\ UNCHANGED records
                /\ last' = Call("edit_phone", r, <<curr_phone, new_phone>>,
                                "PhoneInvalid", <<>>, phones)
        /\ UNCHANGED book

\* Record.remove_phone
RemovePhone(r, phone) ==
    LET phones == records[r].phones
    IN  /\ records' = [records EXCEPT ![r].phones = Filter(phones, phone)]
        /\ last' = Call("remove_phone", r, <<phone>>, "", <<>>, phones)
        /\ UNCHANGED book

\* add_birthday storing the value before Birthday() validates it
AddBirthdayAssignFirst(r, birthday) ==
    /\ records' = [records EXCEPT ![r].birthday = <<birthday>>]
    /\ last' = Call("add_birthday", r, <<birthday>>,
                    IF BirthdayValidate(birthday) THEN "" ELSE "BirthdayInvalid",
                    <<>>, records[r].phones)
    /\ UNCHANGED book

\* Record.add_birthday: Birthday(birthday) validates before the assignment
AddBirthday(r, birthday) ==
    /\ IF BirthdayValidate(birthday)
       THEN /\ records' = [records EXCEPT ![r].birthday = <<birthday>>]
            /\ last' = Call("add_birthday", r, <<birthday>>, "", <<>>,
                            records[r].phones)
       ELSE /\ UNCHANGED records
            /\ last' = Call("add_birthday", r, <<birthday>>, "BirthdayInvalid",
                            <<>>, records[r].phones)
    /\ UNCHANGED book

-----------------------------------------------------------------------------
(* AddressBook *)

\* AddressBook.data, a dict in insertion order: a sequence of entries
\* [key, rec] with distinct keys, rec the Record object stored under key.
Keys(data) == { data[i].key : i \in 1..Len(data) }

IndexOf(data, key) == CHOOSE i \in 1..Len(data) : data[i].key = key

\* dict.setdefault in place of the assignment: a present key keeps its value
DictSetDefault(data, key, rec) ==
    IF key \in Keys(data) THEN data
    ELSE Append(data, [key |-> key, rec |-> rec])

\* self.data[key] = rec: a present key keeps its place and takes the new
\* value, a new key goes last
DictSet(data, key, rec) ==
    IF key \in Keys(data)
    THEN [data EXCEPT ![IndexOf(data, key)].rec = rec]
    ELSE Append(data, [key |-> key, rec |-> rec])

\* self.data.get(name): 0 for None
DictGet(data, name) ==
    IF name \in Keys(data) THEN data[IndexOf(data, name)].rec ELSE 0

\* del self.data[name]
DictDel(data, name) ==
    LET k == IndexOf(data, name)
    IN  SubSeq(data, 1, k - 1) \o SubSeq(data, k + 1, Len(data))

\* AddressBook.add_record
AddRecord(r) ==
    /\ book' = DictSet(book, records[r].name, r)
    /\ last' = Call("add_record", r, <<records[r].name>>, "", <<>>,
                    <<DictGet(book, records[r].name)>>)
    /\ UNCHANGED records

\* AddressBook.find
Find(name) ==
    /\ last' = Call("find", 0, <<name>>, "", DictGet(book, name), <<>>)
    /\ UNCHANGED <<records, book>>

\* AddressBook.delete
Delete(name) ==
    /\ book' = IF name \in Keys(book) THEN DictDel(book, name) ELSE book
    /\ last' = Call("delete", 0, <<name>>, "", <<>>, <<DictGet(book, name)>>)
    /\ UNCHANGED records

\* b_day.replace(year=year): ValueError for 29 February in a common year
ReplaceYear(dt, year) ==
    IF dt.day > DaysInMonth(year, dt.month)
    THEN [ok |-> FALSE, date |-> dt]
    ELSE [ok |-> TRUE, date |-> Date(year, dt.month, dt.day)]

\* the two corrections exchanged: Saturday + 1, Sunday + 2
CorrectToMondaySwapped(b_day) ==
    IF IsoWeekday(b_day) > WORKING_DAYS
    THEN AddDays(b_day, IF IsoWeekday(b_day) - WORKING_DAYS = 2 THEN 2 ELSE 1)
    ELSE b_day

\* lines 104-106: a date on Saturday or Sunday moves to the next Monday
CorrectToMonday(b_day) ==
    IF IsoWeekday(b_day) > WORKING_DAYS
    THEN LET correct_to_monday ==
               IF IsoWeekday(b_day) - WORKING_DAYS = 2 THEN 1 ELSE 2
         IN  AddDays(b_day, correct_to_monday)
    ELSE b_day

\* the test without its lower end: a date before today passes
OutOfWindowUpperOnly(b_day, event_from, event_to) == DateLT(event_to, b_day)

\* line 102: the anchored date lies outside [event_from, event_to]
OutOfWindow(b_day, event_from, event_to) ==
    DateLT(b_day, event_from) \/ DateLT(event_to, b_day)

RECURSIVE Loop(_, _, _, _, _)
\* The for loop of get_upcoming_birthdays from the i-th contact of data on:
\* the exception that ends it ("" for none) and the entries appended.
Loop(i, year, event_from, event_to, data) ==
    IF i > Len(data) THEN [raised |-> "", result |-> <<>>]
    ELSE
      LET contact == records[data[i].rec]
      IN  IF contact.birthday = <<>>
            \* contact.birthday.value with birthday None
            THEN [raised |-> "AttributeError", result |-> <<>>]
          ELSE
            LET parsed == StrpTime(contact.birthday[1])
                anchored == ReplaceYear(parsed.date, year)
            IN  IF ~ parsed.ok \/ ~ anchored.ok
                  THEN [raised |-> "ValueError", result |-> <<>>]
                ELSE
                  LET rest == Loop(i + 1, year, event_from, event_to, data)
                      b_day == anchored.date
                  IN  IF rest.raised # "" THEN rest
                      ELSE IF OutOfWindow(b_day, event_from, event_to)
                        THEN rest
                      ELSE [raised |-> "",
                            result |->
                              <<[name |-> contact.name,
                                 congratulation_date |-> CorrectToMonday(b_day)]>>
                              \o rest.result]

\* AddressBook.get_upcoming_birthdays with datetime.today().date() = today
GetUpcomingBirthdays(today) ==
    LET event_from == today
        event_to == AddDays(today, WEEK)
        out == Loop(1, today.year, event_from, event_to, book)
    IN  /\ last' = Call("get_upcoming_birthdays", 0, <<today>>, out.raised,
                        out.result, <<>>)
        /\ UNCHANGED <<records, book>>

-----------------------------------------------------------------------------
(* Inputs *)

\* Strings tried as phone numbers: every length up to MaxLen, one repeated
\* character, at most one character (the first or the tenth) different.
\* The characters: two ASCII digits, a letter and a sign (str.isdigit() is
\* false of both), and the two digits outside '0'..'9'.
Alphabet == {"0", "7", "a", "+", "U+00B2", "U+0661"}
PhoneStrings ==
    { Mixed(c, d, n, p) : c \in Alphabet, d \in Alphabet,
                          n \in 0..MaxLen, p \in {1, PHONE_LEN} }

\* "0501234567", "0671234567": valid; "123", "05012345ab": invalid
PhoneA == <<"0", "5", "0", "1", "2", "3", "4", "5", "6", "7">>
PhoneB == <<"0", "6", "7", "1", "2", "3", "4", "5", "6", "7">>
PhoneShort == <<"1", "2", "3">>
PhoneLetters == <<"0", "5", "0", "1", "2", "3", "4", "5", "a", "b">>
PhoneInputs == {PhoneA, PhoneB, PhoneShort, PhoneLetters}

\* "12.06.1990", "15.06.1990", "16.06.1990", "02.01.1990", "29.02.2000",
\* "1.3.1995", "31.12.1999": accepted; "1990-06-12", "30.02.2024": rejected
Bday1206 == <<"1", "2", ".", "0", "6", ".", "1", "9", "9", "0">>
Bday1506 == <<"1", "5", ".", "0", "6", ".", "1", "9", "9", "0">>
Bday1606 == <<"1", "6", ".", "0", "6", ".", "1", "9", "9", "0">>
Bday0201 == <<"0", "2", ".", "0", "1", ".", "1", "9", "9", "0">>
Bday2902 == <<"2", "9", ".", "0", "2", ".", "2", "0", "0", "0">>
Bday0103 == <<"1", ".", "3", ".", "1", "9", "9", "5">>
Bday3112 == <<"3", "1", ".", "1", "2", ".", "1", "9", "9", "9">>
BdayIso == <<"1", "9", "9", "0", "-", "0", "6", "-", "1", "2">>
Bday3002 == <<"3", "0", ".", "0", "2", ".", "2", "0", "2", "4">>
BirthdayInputs ==
    {Bday1206, Bday1506, Bday1606, Bday0201, Bday2902, Bday0103, Bday3112,
     BdayIso, Bday3002}

\* The contacts of the birthday query: the i-th Record its caller constructs
\* is named ContactNames[i]
ContactNames == <<"Ann", "Bob">>
BookNames == {"Ann", "Bob", "Eve"}

\* Values of datetime.today().date(): TodaySpan + 1 days from each of
\* 2024-06-06 (a Thursday), 2023-12-25, 2023-02-22 and 2024-02-22
Anchors ==
    {Date(2024, 6, 6), Date(2023, 12, 25), Date(2023, 2, 22), Date(2024, 2, 22)}
Todays == { AddDays(a, k) : a \in Anchors, k \in 0..TodaySpan }

-----------------------------------------------------------------------------
(* Specifications *)

NoCall == Call("", 0, <<>>, "", <<>>, <<>>)

\* Phone(value) on its own
InitPhone == records = <<>> /\ book = <<>> /\ last = NoCall
NextPhone == \E s \in PhoneStrings : PhoneInit(s)
SpecPhone == InitPhone /\ [][NextPhone]_vars

\* One Record and the Phones and Birthday it owns
InitRecord ==
    /\ records = <<NewRecordObj("Ann")>>
    /\ book = <<>>
    /\ last = Call("Record", 1, <<"Ann">>, "", <<>>, <<>>)
NextRecord ==
    \/ \E r \in 1..Len(records), phone \in PhoneInputs : PutPhone(r, phone)
    \/ \E r \in 1..Len(records), c \in PhoneInputs, n \in PhoneInputs :
          EditPhone(r, c, n)
    \/ \E r \in 1..Len(records), phone \in PhoneInputs : RemovePhone(r, phone)
    \/ \E r \in 1..Len(records) :
          \E i \in 1..Len(records[r].phones), phone \in PhoneInputs :
              PhoneUpdate(r, i, phone)
    \/ \E r \in 1..Len(records) :
          \E b \in {Bday1206, Bday0103, BdayIso, Bday3002} : AddBirthday(r, b)
SpecRecord == InitRecord /\ [][NextRecord]_vars

\* An AddressBook and the Records put into it
InitBook == records = <<>> /\ book = <<>> /\ last = NoCall
NextBook ==
    \/ \E name \in BookNames : NewRecord(name)
    \/ \E r \in 1..Len(records) : AddRecord(r)
    \/ \E name \in BookNames : Find(name)
    \/ \E name \in BookNames : Delete(name)
SpecBook == InitBook /\ [][NextBook]_vars

\* An AddressBook of Records with birthdays and the query on it
NextBirthdays ==
    \/ /\ Len(records) < Len(ContactNames)
       /\ NewRecord(ContactNames[Len(records) + 1])
    \/ \E r \in 1..Len(records), b \in BirthdayInputs \ {BdayIso} :
          AddBirthday(r, b)
    \/ \E r \in 1..Len(records) : AddRecord(r)
    \/ \E today \in Todays : GetUpcomingBirthdays(today)
SpecBirthdays == InitBook /\ [][NextBirthdays]_vars

-----------------------------------------------------------------------------
(* Properties *)

\* the string is exactly ten characters '0'..'9'
IsTenDecimalDigits(s) ==
    Len(s) = 10 /\ \A i \in 1..Len(s) : s[i] \in AsciiDigits

\* how many phones of the list have the value v
Count(phones, v) == Cardinality({ i \in 1..Len(phones) : phones[i] = v })

\* the first position of v in the list
FirstIndex(phones, v) ==
    CHOOSE i \in 1..Len(phones) :
        phones[i] = v /\ \A j \in 1..(i - 1) : phones[j] # v

\* C4: Phone(s) raises PhoneInvalid, and creates no Phone, for every s whose
\* length is not 10 or that holds a character other than '0'..'9'; for every
\* s of exactly ten decimal digits it succeeds with value s.
C4_PhoneAcceptsExactlyTenDecimalDigits ==
    last.op = "Phone" =>
        LET s == last.args[1]
        IN  IF IsTenDecimalDigits(s)
            THEN last.raised = "" /\ last.ret = <<s>>
            ELSE last.raised = "PhoneInvalid" /\ last.ret = <<>>

\* C1: put_phone(v) with a valid v, called on a Record that holds v at most
\* once (never, or once from an earlier put_phone(v)), leaves exactly one
\* Phone with value v in the Record's phone list.
C1_PutPhoneIdempotent ==
    (/\ last.op = "put_phone"
     /\ IsTenDecimalDigits(last.args[1])
     /\ Count(last.pre, last.args[1]) <= 1)
    => Count(records[last.rec].phones, last.args[1]) = 1

\* C3: edit_phone(current, new), called on a Record whose list holds a Phone
\* with value current and with new ten decimal digits, sets that Phone's
\* value to new and leaves the length and the other phones as they were.
C3_EditPhoneUpdates ==
    (/\ last.op = "edit_phone"
     /\ Count(last.pre, last.args[1]) > 0
     /\ IsTenDecimalDigits(last.args[2]))
    => records[last.rec].phones =
         [last.pre EXCEPT ![FirstIndex(last.pre, last.args[1])] = last.args[2]]

\* C8: a call of Phone.update, put_phone, edit_phone or add_birthday that
\* raises PhoneInvalid or BirthdayInvalid leaves every Record as it was: the
\* same phone values in the same order and the same birthday, or none.
C8_NoPartialError ==
    [][last'.raised \in {"PhoneInvalid", "BirthdayInvalid"}
         => records' = records]_vars

\* C8 happens: add_birthday raised on a Record that has a phone and a birthday
C8_Witness ==
    /\ last.op = "add_birthday"
    /\ last.raised = "BirthdayInvalid"
    /\ records[last.rec].birthday # <<>>
    /\ records[last.rec].phones # <<>>

\* C5: right after add_record(r), find(r.name.value) is r, also when another
\* Record was stored under the name; right after delete(n), find(n) is None,
\* whether or not n was present.
C5_LookupFollowsAddDelete ==
    /\ last.op = "add_record"
         => DictGet(book, records[last.rec].name) = last.rec
    /\ last.op = "delete" => DictGet(book, last.args[1]) = 0

\* C5 happens: add_record replaced another Record of the same name
C5_Witness ==
    /\ last.op = "add_record"
    /\ last.pre[1] # 0
    /\ last.pre[1] # last.rec

\* the last call was get_upcoming_birthdays
Queried == last.op = "get_upcoming_birthdays"

\* the Records of the book
Contacts == { book[i].rec : i \in 1..Len(book) }

\* the query returned a result with an entry for the name
InResult(name) ==
    /\ last.raised = ""
    /\ \E k \in 1..Len(last.ret) : last.ret[k].name = name

\* the Record's birthday has an occurrence in the year, today or at most
\* `days` days after it
OccursWithin(r, year, today, days) ==
    LET b == StrpTime(records[r].birthday[1]).date
    IN  /\ b.day <= DaysInMonth(year, b.month)
        /\ Ordinal(today) <= Ordinal(Date(year, b.month, b.day))
        /\ Ordinal(Date(year, b.month, b.day)) <= Ordinal(today) + days

\* C2: on a book that holds a Record without a birthday the query completes,
\* leaves that Record out and reports the Records whose anchored birthday is
\* in the window.
C2_NoBirthdaySkipped ==
    (Queried /\ \E r \in Contacts : records[r].birthday = <<>>)
    => /\ last.raised = ""
       /\ \A r \in Contacts :
            IF records[r].birthday = <<>>
            THEN ~ InResult(records[r].name)
            ELSE OccursWithin(r, last.args[1].year, last.args[1], WEEK)
                   => InResult(records[r].name)

\* C6, on the books all of whose Records have a birthday: a Record is in the
\* result if and only if its birthday, anchored to today's year, is a date d
\* with today <= d <= today + 7 days.
C6_WindowMembership ==
    (Queried /\ \A r \in Contacts : records[r].birthday # <<>>)
    => \A r \in Contacts :
         InResult(records[r].name)
           <=> OccursWithin(r, last.args[1].year, last.args[1], WEEK)

\* C9, on the queries that return: a Record whose birthday next occurs, on or
\* after today, at most 7 days after today - in today's year or in the next
\* one - is in the result.
C9_ComingWeekReported ==
    (Queried /\ last.raised = "")
    => \A r \in Contacts :
         (/\ records[r].birthday # <<>>
          /\ \E y \in {last.args[1].year, last.args[1].year + 1} :
                OccursWithin(r, y, last.args[1], WEEK))
         => InResult(records[r].name)

\* the anchored birthday of the Record a result entry names
AnchoredOf(entry) ==
    LET b == StrpTime(records[DictGet(book, entry.name)].birthday[1]).date
    IN  Date(last.args[1].year, b.month, b.day)

\* C7: for every entry of the result, an anchored birthday on ISO weekday
\* 1-5 is the congratulation_date; on Saturday the congratulation_date is
\* two days later, on Sunday one day later, and in both cases a Monday.
C7_WeekendShift ==
    (Queried /\ last.raised = "")
    => \A k \in 1..Len(last.ret) :
         LET a == AnchoredOf(last.ret[k])
             c == last.ret[k].congratulation_date
         IN  /\ IsoWeekday(a) \in 1..5 => c = a
             /\ IsoWeekday(a) = 6 => Ordinal(c) = Ordinal(a) + 2
             /\ IsoWeekday(a) = 7 => Ordinal(c) = Ordinal(a) + 1
             /\ IsoWeekday(a) \in {6, 7} => IsoWeekday(c) = 1

\* C7 happens: the result holds a birthday moved from Saturday and one
\* moved from Sunday
C7_Witness ==
    /\ Queried
    /\ last.raised = ""
    /\ \E k \in 1..Len(last.ret) : IsoWeekday(AnchoredOf(last.ret[k])) = 6
    /\ \E k \in 1..Len(last.ret) : IsoWeekday(AnchoredOf(last.ret[k])) = 7

\* C10: every congratulation_date of the result is on ISO weekday 1-5 and
\* lies in [today, today + 9 days].
C10_WorkingDayNotPast ==
    (Queried /\ last.raised = "")
    => \A k \in 1..Len(last.ret) :
         LET c == last.ret[k].congratulation_date
         IN  /\ IsoWeekday(c) \in 1..5
             /\ Ordinal(last.args[1]) <= Ordinal(c)
             /\ Ordinal(c) <= Ordinal(last.args[1]) + 9

\* C10 happens: a birthday 7 days after today, on a Saturday, gives a
\* congratulation_date 9 days after today
C10_Witness ==
    /\ Queried
    /\ last.raised = ""
    /\ \E k \in 1..Len(last.ret) :
         /\ Ordinal(AnchoredOf(last.ret[k])) = Ordinal(last.args[1]) + WEEK
         /\ Ordinal(last.ret[k].congratulation_date) = Ordinal(last.args[1]) + 9

\* the calendar of the model agrees with datetime: 2024-06-10 is a Monday
\* with ordinal 739047
CalendarSanity ==
    /\ Ordinal(Date(2024, 6, 10)) = 739047
    /\ IsoWeekday(Date(2024, 6, 10)) = 1
    /\ IsoWeekday(Date(2023, 12, 31)) = 7
    /\ AddDays(Date(2023, 12, 30), 2) = Date(2024, 1, 1)
    /\ AddDays(Date(2024, 2, 22), 7) = Date(2024, 2, 29)
    /\ AddDays(Date(2023, 2, 22), 7) = Date(2023, 3, 1)

=============================================================================
